---- MODULE Spec2Model ----
(***************************************************************************)
(* Model of the VoiceText relay handler, relays/__init__.py: voicetext().  *)
(* Several WSGI worker threads run voicetext() concurrently; the only      *)
(* shared mutable state is _limit_levels[*].lookup, guarded by _limit_lock.*)
(*                                                                         *)
(* The deployed levels are LimitLevel(60, 25, 5) and                       *)
(* LimitLevel(86400, 500, 100); the model keeps the two-level structure    *)
(* (a short strict window before a long lenient one) with small windows    *)
(* and caps so that every cap and every expiry is reached.                 *)
(***************************************************************************)
EXTENDS Integers, Sequences, FiniteSets, TLC

-----------------------------------------------------------------------------
(* Bounds of the model *)

\* the last second the clock reaches
MaxTime == 5

\* the two levels, scaled down from (60, 25, 5) and (86400, 500, 100)
Within1 == 1
MaxSingle1 == 2
MaxTotal1 == 1
Within2 == 4
MaxSingle2 == 4
MaxTotal2 == 2

\* the worker threads
Handlers == {1, 2}
Times == 0..MaxTime
Addrs == {"10.0.0.1", "10.0.0.2", "10.0.0.3"}

-----------------------------------------------------------------------------
(* Program constants *)

_AWESOMETTS == "AwesomeTTS/"

_CODE_200 == 200
_CODE_400 == 400
_CODE_403 == 403
_CODE_405 == 405
_CODE_429 == 429
_CODE_502 == 502
_CODE_503 == 503

_MSG_CAPACITY == "This service is over capacity"
_MSG_DENIED == "You may not call this endpoint directly"
_MSG_TOO_MANY == "You have made too many calls to the service"
_MSG_UNACCEPTABLE == "Your request is unacceptable"
_MSG_UPSTREAM == "Cannot communicate with upstream service"

\* _limit_levels: the configured LimitLevel tuples, in configuration order
_limit_levels ==
    << [within |-> Within1, max_single |-> MaxSingle1, max_total |-> MaxTotal1],
       [within |-> Within2, max_single |-> MaxSingle2, max_total |-> MaxTotal2] >>

NumLevels == Len(_limit_levels)
Levels == 1..NumLevels

-----------------------------------------------------------------------------
(* Requests.  A query string is represented by what the handler reads of   *)
(* it: its length, its number of '&' and '=' characters and which of the   *)
(* tested substrings occur in it.  A missing QUERY_STRING key (None) is    *)
(* falsy like the empty string and is represented by QEmpty.               *)

Substrings == {"format=", "format=wav", "pitch=", "speaker=", "speed=",
               "text=", "volume="}
Required == Substrings \ {"format=wav"}

\* format=mp3&pitch=100&speaker=show&speed=100&text=...&volume=100
QGood == [len |-> 70, amps |-> 5, eqs |-> 6, has |-> Required]
QEmpty == [len |-> 0, amps |-> 0, eqs |-> 0, has |-> {}]
QLong == [len |-> 1000, amps |-> 5, eqs |-> 6, has |-> Required]
QWav == [len |-> 70, amps |-> 5, eqs |-> 6, has |-> Substrings]
QFewAmps == [len |-> 70, amps |-> 4, eqs |-> 6, has |-> Required]
QManyEqs == [len |-> 90, amps |-> 7, eqs |-> 8, has |-> Required]
\* one required parameter replaced by another one (x=1), same separators
QMissing(p) == [len |-> 70, amps |-> 5, eqs |-> 6, has |-> Required \ {p}]

Queries == {QGood, QEmpty, QLong, QWav, QFewAmps, QManyEqs}
               \cup {QMissing(p) : p \in Required}

AgentGood == "AwesomeTTS/1.0"
AgentBad == "Mozilla/5.0"

\* str.startswith(_AWESOMETTS) on the sample user agents
StartsWith(s, prefix) ==
    /\ prefix = _AWESOMETTS
    /\ s = AgentGood

Env(addr, agent, method, query) ==
    [REMOTE_ADDR |-> addr, HTTP_USER_AGENT |-> agent,
     REQUEST_METHOD |-> method, QUERY_STRING |-> query]

GoodRequests == {Env(a, AgentGood, "GET", QGood) : a \in Addrs}

BadRequests ==
    {Env("", AgentGood, "GET", QGood),
     Env("", AgentBad, "POST", QWav),
     Env("10.0.0.1", AgentBad, "GET", QGood),
     Env("10.0.0.1", "", "POST", QEmpty),
     Env("10.0.0.1", AgentGood, "POST", QGood),
     Env("10.0.0.1", AgentGood, "POST", QWav)}
    \cup {Env("10.0.0.1", AgentGood, "GET", q) : q \in Queries \ {QGood}}

Requests == GoodRequests \cup BadRequests

\* every combination of the four things the handler reads of a request, for
\* one caller and for a request without address
Agents == {AgentGood, AgentBad, ""}
Methods == {"GET", "POST"}
QueriesSample == {QGood, QEmpty, QWav, QMissing("text=")}
AllRequests ==
    GoodRequests \cup
    {Env(a, ag, m, q) : a \in {"", "10.0.0.1"}, ag \in Agents, m \in Methods,
                        q \in QueriesSample}

NoEnviron == Env("", "", "", QEmpty)

-----------------------------------------------------------------------------
(* Upstream replies: what urlopen() does for one call.  ctype is the       *)
(* Content-Type header of the reply as the upstream service sent it.      *)

UpstreamOutcomes ==
    {[raised |-> FALSE, code |-> 200, ctype |-> "audio/wav", readable |-> TRUE,
      body |-> "RIFF"],
     [raised |-> FALSE, code |-> 200, ctype |-> "Audio/WAV", readable |-> TRUE,
      body |-> "RIFF"],
     [raised |-> FALSE, code |-> 200, ctype |-> "audio/ogg; codecs=opus",
      readable |-> TRUE, body |-> "OggS"],
     [raised |-> FALSE, code |-> 200, ctype |-> "audio/wav", readable |-> FALSE,
      body |-> "RIFF"],
     [raised |-> FALSE, code |-> 200, ctype |-> "application/json",
      readable |-> TRUE, body |-> "{error}"],
     [raised |-> FALSE, code |-> 204, ctype |-> "audio/wav", readable |-> TRUE,
      body |-> ""],
     [raised |-> TRUE, code |-> 500, ctype |-> "application/json",
      readable |-> TRUE, body |-> "{error}"],
     [raised |-> TRUE, code |-> 0, ctype |-> "", readable |-> FALSE,
      body |-> "timed out"]}

\* response.info().gettype() on the sample headers: the type/subtype of the
\* header in lower case and without its parameters, text/plain without header
gettype(ctype) ==
    CASE ctype = "Audio/WAV" -> "audio/wav"
      [] ctype = "audio/ogg; codecs=opus" -> "audio/ogg"
      [] ctype = "" -> "text/plain"
      [] OTHER -> ctype

\* mime.startswith('audio/') on the types of the sample headers
IsAudio(mime) == mime \in {"audio/wav", "audio/ogg"}

_HEADERS_JSON == "application/json"

NoResponse == [status |-> 0, ctype |-> "", body |-> ""]

-----------------------------------------------------------------------------
VARIABLES
    lookup,        \* lookup[l][addr] = [created, calls]: _limit_levels[l].lookup
    _limit_lock,   \* 0 when free, else the handler holding it
    clock,         \* int(time()) of the instance
    pc,            \* pc[h]: where handler h is in voicetext()
    environ,       \* environ[h]: the request handler h serves
    now,           \* now[h]: the local `now`
    level,         \* level[h]: index of `level` in the running for loop
    response,      \* response[h]: what start_response and return gave
    entered,       \* entered[h]: the lookups when h took the lock
    steps,         \* steps[h]: lock acquisitions, upstream calls and
                   \*   start_response calls of the current request
    accepted_at,   \* accepted_at[addr]: the times of the accepted calls
    fetched        \* fetched[h]: what the upstream call of h came back with

vars == << lookup, _limit_lock, clock, pc, environ, now, level, response,
           entered, steps, accepted_at, fetched >>

NoSteps == [locks |-> 0, upstream |-> 0, responses |-> 0]
EmptyLookup == [a \in {} |-> [created |-> 0, calls |-> 0]]
NoLookups == [l \in Levels |-> EmptyLookup]
NoReply == [raised |-> FALSE, code |-> 0, ctype |-> "", readable |-> FALSE,
            body |-> ""]

Init ==
    /\ lookup = [l \in Levels |-> EmptyLookup]
    /\ _limit_lock = 0
    /\ clock = 0
    /\ pc = [h \in Handlers |-> "idle"]
    /\ environ = [h \in Handlers |-> NoEnviron]
    /\ now = [h \in Handlers |-> 0]
    /\ level = [h \in Handlers |-> 1]
    /\ response = [h \in Handlers |-> NoResponse]
    /\ entered = [h \in Handlers |-> NoLookups]
    /\ steps = [h \in Handlers |-> NoSteps]
    /\ accepted_at = [a \in Addrs |-> << >>]
    /\ fetched = [h \in Handlers |-> NoReply]

-----------------------------------------------------------------------------
(* Request validation, lines 100-128 *)

\* the sanity check without its format=wav test
QueryAcceptableWithWav(data) ==
    /\ data.len > 0
    /\ data.len < 1000
    /\ data.amps > 4
    /\ data.eqs < 8
    /\ "format=" \in data.has
    /\ "pitch=" \in data.has
    /\ "speaker=" \in data.has
    /\ "speed=" \in data.has
    /\ "text=" \in data.has
    /\ "volume=" \in data.has

\* the rough sanity check of the query string
QueryAcceptable(data) ==
    /\ data.len > 0
    /\ data.len < 1000
    /\ data.amps > 4
    /\ data.eqs < 8
    /\ "format=" \in data.has
    /\ "format=wav" \notin data.has
    /\ "pitch=" \in data.has
    /\ "speaker=" \in data.has
    /\ "speed=" \in data.has
    /\ "text=" \in data.has
    /\ "volume=" \in data.has

Accepted == [status |-> 0, body |-> ""]

\* the checks with the request method tested first
ValidatedMethodFirst(env) ==
    IF env.REQUEST_METHOD # "GET"
    THEN [status |-> _CODE_405, body |-> _MSG_UNACCEPTABLE]
    ELSE IF env.REMOTE_ADDR = ""
    THEN [status |-> _CODE_403, body |-> _MSG_DENIED]
    ELSE IF ~StartsWith(env.HTTP_USER_AGENT, _AWESOMETTS)
    THEN [status |-> _CODE_403, body |-> _MSG_DENIED]
    ELSE IF ~QueryAcceptable(env.QUERY_STRING)
    THEN [status |-> _CODE_400, body |-> _MSG_UNACCEPTABLE]
    ELSE Accepted

\* the checks in the order of the code; Accepted when all of them pass
Validated(env) ==
    IF env.REMOTE_ADDR = ""
    THEN [status |-> _CODE_403, body |-> _MSG_DENIED]
    ELSE IF ~StartsWith(env.HTTP_USER_AGENT, _AWESOMETTS)
    THEN [status |-> _CODE_403, body |-> _MSG_DENIED]
    ELSE IF env.REQUEST_METHOD # "GET"
    THEN [status |-> _CODE_405, body |-> _MSG_UNACCEPTABLE]
    ELSE IF ~QueryAcceptable(env.QUERY_STRING)
    THEN [status |-> _CODE_400, body |-> _MSG_UNACCEPTABLE]
    ELSE Accepted

-----------------------------------------------------------------------------
(* Rate limiting, lines 131-177 *)

\* variants of the definitions below with one slip each, used to show that
\* the properties depend on them
IsExpiredAtBoundary(info, t, lv) == info.created <= t - lv.within
IsExpiredReversed(info, t, lv) == info.created > t - lv.within
IsFullOffByOne(lk, lv) == Cardinality(DOMAIN lk) > lv.max_total
IsSpentOffByOne(info, lv) == info.calls > lv.max_single
CountedWithoutIncrement(lk, addr, t) ==
    IF addr \in DOMAIN lk
    THEN lk
    ELSE [a \in DOMAIN lk \cup {addr} |->
             IF a = addr THEN [created |-> t, calls |-> 1] ELSE lk[a]]
CountedRefreshing(lk, addr, t) ==
    [a \in DOMAIN lk \cup {addr} |->
        IF a # addr THEN lk[a]
        ELSE IF addr \in DOMAIN lk
        THEN [created |-> t, calls |-> lk[addr].calls + 1]
        ELSE [created |-> t, calls |-> 1]]
IsFullAgainstSingle(lk, lv) == Cardinality(DOMAIN lk) >= lv.max_single
LockIgnored == TRUE

\* line 139: info['created'] < expired, with expired = now - level.within
IsExpired(info, t, lv) == info.created < t - lv.within

\* lines 138-140: the lookup of one level without its expired entries
Swept(lk, t, lv) ==
    [a \in {x \in DOMAIN lk : ~IsExpired(lk[x], t, lv)} |-> lk[a]]

\* lines 148-149: no room for a caller the level does not know
IsFull(lk, lv) == Cardinality(DOMAIN lk) >= lv.max_total

\* lines 155-156: a known caller has used up its calls
IsSpent(info, lv) == info.calls >= lv.max_single

\* lines 167-172: the caller's entry created or its calls incremented
Counted(lk, addr, t) ==
    IF addr \in DOMAIN lk
    THEN [lk EXCEPT ![addr].calls = @ + 1]
    ELSE [a \in DOMAIN lk \cup {addr} |->
             IF a = addr THEN [created |-> t, calls |-> 1] ELSE lk[a]]

\* line 131: the lock can be taken
LockFree == _limit_lock = 0

-----------------------------------------------------------------------------
(* The handler, one action per step of voicetext() *)

Respond(h, status, ctype, body) ==
    /\ response' = [response EXCEPT ![h] =
                        [status |-> status, ctype |-> ctype, body |-> body]]

\* a worker thread is handed a request
Serve(h, requests) ==
    /\ pc[h] \in {"idle", "done"}
    /\ \E env \in requests : environ' = [environ EXCEPT ![h] = env]
    /\ pc' = [pc EXCEPT ![h] = "validate"]
    /\ response' = [response EXCEPT ![h] = NoResponse]
    /\ steps' = [steps EXCEPT ![h] = NoSteps]
    /\ now' = [now EXCEPT ![h] = 0]
    /\ level' = [level EXCEPT ![h] = 1]
    /\ fetched' = [fetched EXCEPT ![h] = NoReply]
    /\ UNCHANGED << lookup, _limit_lock, clock, entered, accepted_at >>

\* lines 100-128
Validate(h) ==
    /\ pc[h] = "validate"
    /\ LET v == Validated(environ[h]) IN
         IF v = Accepted
         THEN /\ pc' = [pc EXCEPT ![h] = "lock"]
              /\ UNCHANGED << response, steps >>
         ELSE /\ pc' = [pc EXCEPT ![h] = "done"]
              /\ Respond(h, v.status, _HEADERS_JSON, v.body)
              /\ steps' = [steps EXCEPT ![h].responses = @ + 1]
    /\ UNCHANGED << lookup, _limit_lock, clock, environ, now, level, entered,
                    accepted_at, fetched >>

\* lines 131-132: with _limit_lock: now = int(_time())
Acquire(h) ==
    /\ pc[h] = "lock"
    /\ LockFree
    /\ _limit_lock' = h
    /\ now' = [now EXCEPT ![h] = clock]
    /\ level' = [level EXCEPT ![h] = 1]
    /\ pc' = [pc EXCEPT ![h] = "expire"]
    /\ entered' = [entered EXCEPT ![h] = lookup]
    /\ steps' = [steps EXCEPT ![h].locks = @ + 1]
    /\ UNCHANGED << lookup, clock, environ, response, accepted_at, fetched >>

\* lines 135-140, one iteration of the loop over the levels
Expire(h) ==
    /\ pc[h] = "expire"
    /\ LET l == level[h] IN
         /\ lookup' = [lookup EXCEPT
                          ![l] = Swept(lookup[l], now[h], _limit_levels[l])]
         /\ IF l < NumLevels
            THEN /\ level' = [level EXCEPT ![h] = l + 1]
                 /\ pc' = pc
            ELSE /\ level' = [level EXCEPT ![h] = 1]
                 /\ pc' = [pc EXCEPT ![h] = "check"]
    /\ UNCHANGED << _limit_lock, clock, environ, now, response, entered, steps,
                    accepted_at, fetched >>

\* the check loop with the slip of counting the call in each level it passes
CheckCounting(h) ==
    /\ pc[h] = "check"
    /\ LET l == level[h]
           lv == _limit_levels[l]
           lk == lookup[l]
           remote_addr == environ[h].REMOTE_ADDR
           spent == remote_addr \in DOMAIN lk /\ lk[remote_addr].calls >= lv.max_single
           full == remote_addr \notin DOMAIN lk /\ Cardinality(DOMAIN lk) >= lv.max_total
       IN
         IF spent \/ full
         THEN /\ Respond(h, IF full THEN _CODE_503 ELSE _CODE_429, _HEADERS_JSON,
                         IF full THEN _MSG_CAPACITY ELSE _MSG_TOO_MANY)
              /\ steps' = [steps EXCEPT ![h].responses = @ + 1]
              /\ pc' = [pc EXCEPT ![h] = "rejected"]
              /\ level' = level
              /\ lookup' = lookup
         ELSE /\ UNCHANGED << response, steps >>
              /\ lookup' = [lookup EXCEPT ![l] = Counted(lk, remote_addr, now[h])]
              /\ IF l < NumLevels
                 THEN /\ level' = [level EXCEPT ![h] = l + 1]
                      /\ pc' = pc
                 ELSE /\ level' = [level EXCEPT ![h] = 1]
                      /\ pc' = [pc EXCEPT ![h] = "upstream"]
    /\ UNCHANGED << _limit_lock, clock, environ, now, entered, accepted_at, fetched >>

\* lines 143-161, one iteration of the loop over the levels
Check(h) ==
    /\ pc[h] = "check"
    /\ LET l == level[h]
           lv == _limit_levels[l]
           lk == lookup[l]
           remote_addr == environ[h].REMOTE_ADDR
           rejected == IF remote_addr \in DOMAIN lk
                       THEN IF IsSpent(lk[remote_addr], lv)
                            THEN [status |-> _CODE_429, body |-> _MSG_TOO_MANY]
                            ELSE Accepted
                       ELSE IF IsFull(lk, lv)
                            THEN [status |-> _CODE_503, body |-> _MSG_CAPACITY]
                            ELSE Accepted
       IN
         IF rejected # Accepted
         THEN /\ Respond(h, rejected.status, _HEADERS_JSON, rejected.body)
              /\ steps' = [steps EXCEPT ![h].responses = @ + 1]
              /\ pc' = [pc EXCEPT ![h] = "rejected"]
              /\ level' = level
         ELSE /\ UNCHANGED << response, steps >>
              /\ IF l < NumLevels
                 THEN /\ level' = [level EXCEPT ![h] = l + 1]
                      /\ pc' = pc
                 ELSE /\ level' = [level EXCEPT ![h] = 1]
                      /\ pc' = [pc EXCEPT ![h] = "commit"]
    /\ UNCHANGED << lookup, _limit_lock, clock, environ, now, entered,
                    accepted_at, fetched >>

\* lines 165-176, one iteration of the loop over the levels
Count(h) ==
    /\ pc[h] = "commit"
    /\ LET l == level[h]
           remote_addr == environ[h].REMOTE_ADDR
       IN
         /\ lookup' = [lookup EXCEPT
                          ![l] = Counted(lookup[l], remote_addr, now[h])]
         /\ IF l < NumLevels
            THEN /\ level' = [level EXCEPT ![h] = l + 1]
                 /\ pc' = pc
            ELSE /\ level' = [level EXCEPT ![h] = 1]
                 /\ pc' = [pc EXCEPT ![h] = "accepted"]
    /\ UNCHANGED << _limit_lock, clock, environ, now, response, entered, steps,
                    fetched >>

Commit(h) ==
    /\ Count(h)
    /\ accepted_at' = accepted_at

\* the same step, with the time of an accepted call written to accepted_at
CommitLogged(h) ==
    /\ Count(h)
    /\ accepted_at' =
         IF pc'[h] = "accepted"
         THEN [accepted_at EXCEPT ![environ[h].REMOTE_ADDR] = Append(@, now[h])]
         ELSE accepted_at

\* the end of the block without the returns of lines 153 and 161
ReleaseFallingThrough(h) ==
    /\ pc[h] \in {"accepted", "rejected"}
    /\ _limit_lock' = 0
    /\ pc' = [pc EXCEPT ![h] = "upstream"]
    /\ entered' = [entered EXCEPT ![h] = NoLookups]
    /\ now' = [now EXCEPT ![h] = 0]
    /\ UNCHANGED << lookup, clock, environ, level, response, steps,
                    accepted_at, fetched >>

\* the end of the block with the lock kept by the returns of lines 153 and 161
ReleaseOnlyAdmitted(h) ==
    /\ pc[h] \in {"accepted", "rejected"}
    /\ _limit_lock' = IF pc[h] = "accepted" THEN 0 ELSE h
    /\ pc' = [pc EXCEPT ![h] = IF pc[h] = "accepted" THEN "upstream" ELSE "done"]
    /\ entered' = [entered EXCEPT ![h] = NoLookups]
    /\ now' = [now EXCEPT ![h] = 0]
    /\ UNCHANGED << lookup, clock, environ, level, response, steps,
                    accepted_at, fetched >>

\* the end of the block with the lock kept for the upstream call
ReleaseKeepingLock(h) ==
    /\ pc[h] \in {"accepted", "rejected"}
    /\ _limit_lock' = IF pc[h] = "accepted" THEN h ELSE 0
    /\ pc' = [pc EXCEPT ![h] = IF pc[h] = "accepted" THEN "upstream" ELSE "done"]
    /\ entered' = [entered EXCEPT ![h] = NoLookups]
    /\ now' = [now EXCEPT ![h] = 0]
    /\ UNCHANGED << lookup, clock, environ, level, response, steps,
                    accepted_at, fetched >>

\* the end of the with block: line 177 falls through, lines 153 and 161 return
\* (now is not read after the block, and entered is only kept inside it)
Release(h) ==
    /\ pc[h] \in {"accepted", "rejected"}
    /\ _limit_lock' = 0
    /\ pc' = [pc EXCEPT ![h] = IF pc[h] = "accepted" THEN "upstream" ELSE "done"]
    /\ entered' = [entered EXCEPT ![h] = NoLookups]
    /\ now' = [now EXCEPT ![h] = 0]
    /\ UNCHANGED << lookup, clock, environ, level, response, steps,
                    accepted_at, fetched >>

\* the response with the body of the failed upstream reply in it
RelayedWithDetail(up) ==
    LET mime == gettype(up.ctype) IN
    IF ~up.raised /\ up.code = 200 /\ IsAudio(mime) /\ up.readable
    THEN [status |-> _CODE_200, ctype |-> mime, body |-> up.body]
    ELSE [status |-> _CODE_502, ctype |-> _HEADERS_JSON, body |-> up.body]

\* lines 184-200: the response made from what the upstream call came back with
Relayed(up) ==
    LET mime == gettype(up.ctype) IN
    IF ~up.raised /\ up.code = 200 /\ IsAudio(mime) /\ up.readable
    THEN [status |-> _CODE_200, ctype |-> mime, body |-> up.body]
    ELSE [status |-> _CODE_502, ctype |-> _HEADERS_JSON, body |-> _MSG_UPSTREAM]

\* the lookup without the last call of addr
Uncounted(lk, addr) ==
    IF addr \notin DOMAIN lk THEN lk
    ELSE IF lk[addr].calls > 1 THEN [lk EXCEPT ![addr].calls = @ - 1]
    ELSE [a \in DOMAIN lk \ {addr} |-> lk[a]]

\* the upstream call with the call taken back from the lookups when it fails
RelayRollingBack(h, up) ==
    /\ pc[h] = "upstream"
    /\ Respond(h, Relayed(up).status, Relayed(up).ctype, Relayed(up).body)
    /\ steps' = [steps EXCEPT ![h].upstream = @ + 1, ![h].responses = @ + 1]
    /\ pc' = [pc EXCEPT ![h] = "done"]
    /\ lookup' = IF Relayed(up).status = _CODE_502
                 THEN [l \in Levels |->
                          Uncounted(lookup[l], environ[h].REMOTE_ADDR)]
                 ELSE lookup
    /\ UNCHANGED << _limit_lock, clock, environ, now, level, entered,
                    accepted_at >>

\* lines 179-206: the single upstream call, coming back with up, and the
\* response made from it
Relay(h, up) ==
    /\ pc[h] = "upstream"
    /\ Respond(h, Relayed(up).status, Relayed(up).ctype, Relayed(up).body)
    /\ steps' = [steps EXCEPT ![h].upstream = @ + 1, ![h].responses = @ + 1]
    /\ pc' = [pc EXCEPT ![h] = "done"]
    /\ UNCHANGED << lookup, _limit_lock, clock, environ, now, level, entered,
                    accepted_at >>

Upstream(h) ==
    /\ \E up \in UpstreamOutcomes : Relay(h, up)
    /\ fetched' = fetched

\* the same step, with what the upstream call came back with kept in fetched
UpstreamLogged(h) ==
    \E up \in UpstreamOutcomes :
        /\ Relay(h, up)
        /\ fetched' = [fetched EXCEPT ![h] = up]

\* the instance's clock advances by a second
Tick ==
    /\ clock < MaxTime
    /\ clock' = clock + 1
    /\ UNCHANGED << lookup, _limit_lock, pc, environ, now, level, response,
                    entered, steps, accepted_at, fetched >>

\* a worker thread is handed a request that passes validation
Start(h) == Serve(h, GoodRequests)

\* a worker thread is handed any request
StartAny(h) == Serve(h, Requests)

\* a worker thread is handed a request of any combination of its four parts
StartEvery(h) == Serve(h, AllRequests)

\* a worker thread is handed a valid request of the caller it serves
StartOwn(h) ==
    Serve(h, {env \in GoodRequests :
                 env.REMOTE_ADDR = IF h = 1 THEN "10.0.0.1" ELSE "10.0.0.2"})

\* the worker threads serving concurrently
Next ==
    \/ \E h \in Handlers : Start(h)
    \/ \E h \in Handlers : Validate(h)
    \/ \E h \in Handlers : Acquire(h)
    \/ \E h \in Handlers : Expire(h)
    \/ \E h \in Handlers : Check(h)
    \/ \E h \in Handlers : Commit(h)
    \/ \E h \in Handlers : Release(h)
    \/ \E h \in Handlers : Upstream(h)
    \/ Tick

Spec == Init /\ [][Next]_vars

\* the worker threads serving one caller each, concurrently; a thread runs on
\* once it has a request and gets the lock if it keeps asking for it
NextFair ==
    \/ \E h \in Handlers : StartOwn(h)
    \/ \E h \in Handlers : Validate(h)
    \/ \E h \in Handlers : Acquire(h)
    \/ \E h \in Handlers : Expire(h)
    \/ \E h \in Handlers : Check(h)
    \/ \E h \in Handlers : Commit(h)
    \/ \E h \in Handlers : Release(h)
    \/ \E h \in Handlers : Upstream(h)
    \/ Tick

Fairness ==
    \A h \in Handlers :
        /\ WF_vars(Validate(h))
        /\ SF_vars(Acquire(h))
        /\ WF_vars(Expire(h))
        /\ WF_vars(Check(h))
        /\ WF_vars(Commit(h))
        /\ WF_vars(Release(h))
        /\ WF_vars(Upstream(h))

SpecFair == Init /\ [][NextFair]_vars /\ Fairness

\* one worker thread serving requests of every shape, one after the other,
\* with the accepted calls logged
NextSerial ==
    \/ StartAny(1)
    \/ Validate(1)
    \/ Acquire(1)
    \/ Expire(1)
    \/ Check(1)
    \/ CommitLogged(1)
    \/ Release(1)
    \/ UpstreamLogged(1)
    \/ Tick

SpecSerial == Init /\ [][NextSerial]_vars

\* one worker thread serving every combination of address, user agent,
\* method and query string
NextRequests ==
    \/ StartEvery(1)
    \/ Validate(1)
    \/ Acquire(1)
    \/ Expire(1)
    \/ Check(1)
    \/ Commit(1)
    \/ Release(1)
    \/ Upstream(1)
    \/ Tick

SpecRequests == Init /\ [][NextRequests]_vars

-----------------------------------------------------------------------------
(* Vocabulary of the properties.  While handler h is inside the with       *)
(* block, entered[h] is the state of the lookups it found, now[h] its      *)
(* time and Caller(h) its identity; the definitions below say what that    *)
(* state means for the call, independently of the steps the handler takes. *)

Caller(h) == environ[h].REMOTE_ADDR
Status(h) == response[h].status

InBlock(h) == pc[h] \in {"expire", "check", "commit", "accepted", "rejected"}
Rejected(h) == pc[h] = "rejected"
Admitted(h) == pc[h] \in {"commit", "accepted"}
Decided(h) == Rejected(h) \/ Admitted(h)

\* the age of the record of a in level l, as handler h found it
Age(h, l, a) == now[h] - entered[h][l][a].created

\* the records handler h found in level l that are not older than the window
Unexpired(h, l) ==
    {a \in DOMAIN entered[h][l] : Age(h, l, a) <= _limit_levels[l].within}

Known(h, l) == Caller(h) \in Unexpired(h, l)

\* the caller is known to level l and has used up its calls
RateExceeded(h, l) ==
    /\ Known(h, l)
    /\ entered[h][l][Caller(h)].calls >= _limit_levels[l].max_single

\* the caller is new to level l and the level has no room for it
OverCapacity(h, l) ==
    /\ ~Known(h, l)
    /\ Cardinality(Unexpired(h, l)) >= _limit_levels[l].max_total

Fails(h, l) == RateExceeded(h, l) \/ OverCapacity(h, l)

\* the lookups handler h found, without the records older than the window
Kept(h) ==
    [l \in Levels |-> [a \in Unexpired(h, l) |-> entered[h][l][a]]]

\* the record of the caller in level l once the call of h is counted
CountedRecord(h, l) ==
    IF Known(h, l)
    THEN [created |-> entered[h][l][Caller(h)].created,
          calls |-> entered[h][l][Caller(h)].calls + 1]
    ELSE [created |-> now[h], calls |-> 1]

\* the lookups after the call of h is counted in the levels of ls
CountedIn(h, ls) ==
    [l \in Levels |->
        IF l \in ls
        THEN [a \in Unexpired(h, l) \cup {Caller(h)} |->
                 IF a = Caller(h) THEN CountedRecord(h, l)
                 ELSE entered[h][l][a]]
        ELSE Kept(h)[l]]

\* the lookups as handler h alone makes them, step by step
OwnProgress(h) ==
    CASE pc[h] = "expire" ->
            [l \in Levels |->
                IF l < level[h] THEN Kept(h)[l] ELSE entered[h][l]]
      [] pc[h] \in {"check", "rejected"} -> Kept(h)
      [] pc[h] = "commit" -> CountedIn(h, {l \in Levels : l < level[h]})
      [] pc[h] = "accepted" -> CountedIn(h, Levels)

\* the accepted calls of a at or after time t
AcceptedSince(a, t) ==
    Cardinality({i \in DOMAIN accepted_at[a] : accepted_at[a][i] >= t})

\* the accepted calls of a in the interval [t, t + w]
AcceptedWithin(a, t, w) ==
    Cardinality({i \in DOMAIN accepted_at[a] :
                    t <= accepted_at[a][i] /\ accepted_at[a][i] <= t + w})

-----------------------------------------------------------------------------
(* C1 *)

\* the accepted calls of the caller since its record in level l was created
MadeInWindow(h, l) ==
    IF Known(h, l)
    THEN AcceptedSince(Caller(h), entered[h][l][Caller(h)].created)
    ELSE 0

\* no capacity cap and no level other than l rejects the call of h
OnlyRateOf(h, l) ==
    /\ \A k \in Levels : ~OverCapacity(h, k)
    /\ \A k \in Levels \ {l} : ~RateExceeded(h, k)

\* C1: for every level with per-caller cap M, a call that finds fewer than M
\* accepted calls of its identity in the level's running window is admitted,
\* and a call that finds M of them is rejected by that level with 429 (no
\* other level and no capacity cap rejecting); so the first M calls of a
\* window are admitted and the (M+1)-th is rejected, and never more than M
\* are accepted in it.
C1_PerCallerCap ==
    \A h \in Handlers : \A l \in Levels :
        pc[h] \in {"rejected", "commit"} =>
            /\ MadeInWindow(h, l) <= _limit_levels[l].max_single
            /\ OnlyRateOf(h, l) =>
                 IF MadeInWindow(h, l) < _limit_levels[l].max_single
                 THEN pc[h] = "commit"
                 ELSE /\ Rejected(h)
                      /\ Status(h) = _CODE_429
                      /\ response[h].body = _MSG_TOO_MANY
                      /\ level[h] = l

\* the (M+1)-th call of a window rejected, in the first and in the second level
C1_Witness ==
    \E h \in Handlers :
        /\ Rejected(h)
        /\ Status(h) = _CODE_429
        /\ level[h] = 2
        /\ OnlyRateOf(h, 2)
        /\ MadeInWindow(h, 2) = _limit_levels[2].max_single
        /\ MadeInWindow(h, 1) < _limit_levels[1].max_single

-----------------------------------------------------------------------------
(* C2 *)

\* C2: for every level with distinct-caller cap T, a call of an identity the
\* level does not know that finds T (or more) identities with unexpired
\* records in it is rejected with 503, whatever their call counts are, and
\* an identity the level knows is never rejected by it for capacity.
C2_DistinctCallerCap ==
    \A h \in Handlers : \A l \in Levels :
        Decided(h) =>
            /\ OverCapacity(h, l) =>
                 /\ Rejected(h)
                 /\ Status(h) = _CODE_503
                 /\ response[h].body = _MSG_CAPACITY
            /\ (Rejected(h) /\ Status(h) = _CODE_503 /\ level[h] = l) =>
                 ~Known(h, l)

\* a further identity rejected by the second level, which is full, after the
\* first level let it pass
C2_Witness ==
    \E h \in Handlers :
        /\ Rejected(h)
        /\ Status(h) = _CODE_503
        /\ level[h] = 2
        /\ Cardinality(Unexpired(h, 2)) = _limit_levels[2].max_total
        /\ \E a \in Unexpired(h, 2) : entered[h][2][a].calls > 1

-----------------------------------------------------------------------------
(* C3 *)

\* C3: at most one handler is inside the expire-check-commit block, it holds
\* the lock, and the lookups are at every step what that handler alone has
\* made of the lookups it found: no other handler changes them in between,
\* so the block acts as one transaction and no record exceeds its cap.
C3_OneTransaction ==
    /\ \A h \in Handlers :
          InBlock(h) => _limit_lock = h /\ lookup = OwnProgress(h)
    /\ \A g, h \in Handlers : InBlock(g) /\ InBlock(h) => g = h
    /\ \A l \in Levels : \A a \in DOMAIN lookup[l] :
          lookup[l][a].calls <= _limit_levels[l].max_single

\* a handler half way through its commit while another handler of the same
\* identity waits for the lock
C3_Witness ==
    \E g, h \in Handlers :
        /\ g # h
        /\ pc[g] = "commit"
        /\ level[g] = 2
        /\ pc[h] = "lock"
        /\ Caller(g) = Caller(h)
        /\ lookup[1][Caller(g)].calls = _limit_levels[1].max_single

-----------------------------------------------------------------------------
(* C4 *)

\* C4 as stated: after a rejected call every lookup is what it was before it
C4_Unchanged ==
    \A h \in Handlers : Rejected(h) => lookup = entered[h]

\* C4, amended: a rejected call creates no record and changes no record; the
\* lookups after it are the lookups before it less the records older than
\* the window of their level.
C4_OnlySwept ==
    \A h \in Handlers : \A l \in Levels :
        Rejected(h) =>
            /\ DOMAIN lookup[l] \subseteq DOMAIN entered[h][l]
            /\ \A a \in DOMAIN lookup[l] : lookup[l][a] = entered[h][l][a]
            /\ \A a \in DOMAIN entered[h][l] \ DOMAIN lookup[l] :
                  Age(h, l, a) > _limit_levels[l].within

\* a rejected call that swept an expired record of another identity
C4_Witness ==
    \E h \in Handlers : \E l \in Levels :
        /\ Rejected(h)
        /\ \E a \in DOMAIN entered[h][l] \ {Caller(h)} :
              a \notin DOMAIN lookup[l]

-----------------------------------------------------------------------------
(* C5 *)

\* the caller's record in level l is new or differs from the one h found
Touched(h, l) ==
    /\ Caller(h) \in DOMAIN lookup[l]
    /\ \/ Caller(h) \notin DOMAIN entered[h][l]
       \/ lookup[l][Caller(h)] # entered[h][l][Caller(h)]

\* C5: a call that passed an earlier level and is rejected by a later one
\* leaves no new record of the caller and no incremented call count in any
\* level; a record of the caller is created or incremented only when every
\* level passed its check.
C5_NoPartialCommit ==
    \A h \in Handlers :
        /\ (Rejected(h) /\ level[h] > 1) =>
              \A l \in Levels : ~Touched(h, l)
        /\ (InBlock(h) /\ \E l \in Levels : Touched(h, l)) =>
              /\ Admitted(h)
              /\ \A l \in Levels : ~Fails(h, l)

\* a call new to the first level, which has room, rejected by the second
C5_Witness ==
    \E h \in Handlers :
        /\ Rejected(h)
        /\ level[h] = 2
        /\ ~Known(h, 1)
        /\ Caller(h) \notin DOMAIN lookup[1]

-----------------------------------------------------------------------------
(* C6 *)

\* the caller has a record in level l that is older than the window
Outdated(h, l) ==
    /\ Caller(h) \in DOMAIN entered[h][l]
    /\ Age(h, l, Caller(h)) > _limit_levels[l].within

\* C6: a record older than the window of its level is treated as absent: the
\* level rejects its identity only for capacity, as it would a new one, and
\* an admitted call starts a new record with one call.
C6_OutdatedIgnored ==
    \A h \in Handlers : \A l \in Levels :
        (Decided(h) /\ Outdated(h, l)) =>
            /\ Rejected(h) /\ level[h] = l =>
                 /\ Status(h) = _CODE_503
                 /\ Cardinality(Unexpired(h, l)) >= _limit_levels[l].max_total
            /\ (\A k \in Levels : k # l => ~Fails(h, k))
                 /\ Cardinality(Unexpired(h, l)) < _limit_levels[l].max_total
                 => Admitted(h)
            /\ pc[h] = "accepted" =>
                 lookup[l][Caller(h)] = [created |-> now[h], calls |-> 1]

\* a caller whose outdated record had used up its calls is accepted again
C6_Witness ==
    \E h \in Handlers : \E l \in Levels :
        /\ pc[h] = "accepted"
        /\ Outdated(h, l)
        /\ entered[h][l][Caller(h)].calls = _limit_levels[l].max_single

-----------------------------------------------------------------------------
(* C7 *)

\* C7: at every admission check every record in the lookups is younger than
\* the window of its level (now - created_at < window_seconds).
C7_YoungerThanWindow ==
    \A h \in Handlers : \A l \in Levels :
        pc[h] \in {"check", "rejected", "commit"} =>
            \A a \in DOMAIN lookup[l] :
                now[h] - lookup[l][a].created < _limit_levels[l].within

-----------------------------------------------------------------------------
(* C8 *)

\* C8: for every level and identity, the accepted calls inside any interval
\* of the length of the window are at most max_calls_per_caller.
C8_SlidingWindowCap ==
    \A a \in Addrs : \A l \in Levels : \A t \in Times :
        AcceptedWithin(a, t, _limit_levels[l].within)
            <= _limit_levels[l].max_single

-----------------------------------------------------------------------------
(* C9 *)

\* the reasons for which the validation rejects, with their status
Refusals(env) ==
    (IF env.REMOTE_ADDR = "" \/ env.HTTP_USER_AGENT # AgentGood
     THEN {_CODE_403} ELSE {})
    \cup (IF env.REQUEST_METHOD # "GET" THEN {_CODE_405} ELSE {})
    \cup (IF \/ env.QUERY_STRING.len = 0
             \/ env.QUERY_STRING.len >= 1000
             \/ ~(Required \subseteq env.QUERY_STRING.has)
             \/ "format=wav" \in env.QUERY_STRING.has
          THEN {_CODE_400} ELSE {})

ValidationCodes == {_CODE_400, _CODE_403, _CODE_405}

\* a request answered by the validation stays clear of the limiter
C9_State ==
    \A h \in Handlers :
        /\ (pc[h] \notin {"idle", "validate"} /\ Refusals(environ[h]) # {}) =>
              Status(h) \in Refusals(environ[h])
        /\ Status(h) \in ValidationCodes =>
              /\ pc[h] = "done"
              /\ steps[h].locks = 0
              /\ steps[h].upstream = 0
              /\ _limit_lock # h

\* the step that answers it changes neither the lookups nor the lock
C9_Step ==
    \A h \in Handlers :
        (pc[h] = "validate" /\ pc'[h] # "validate"
           /\ (Refusals(environ[h]) # {} \/ pc'[h] = "done")) =>
            /\ pc'[h] = "done"
            /\ response'[h].status \in ValidationCodes
            /\ lookup' = lookup
            /\ _limit_lock' = _limit_lock

\* C9: a request rejected by the validation (403, 405, 400) is rejected
\* before the rate limiter runs: the handler never takes the lock for it,
\* expires, creates or increments no record and makes no upstream call.
C9_RejectedBeforeLimiter == []C9_State /\ [][C9_Step]_vars

\* a format=wav request answered 400 while the lookups hold records
C9_Witness ==
    \E h \in Handlers :
        /\ pc[h] = "done"
        /\ Status(h) = _CODE_400
        /\ "format=wav" \in environ[h].QUERY_STRING.has
        /\ Caller(h) \in DOMAIN lookup[1]
        /\ lookup[1][Caller(h)].calls = 1

-----------------------------------------------------------------------------
(* C10 *)

\* C10: a call is admitted only if no level rejects it; a rejected call is
\* rejected by the first level, in configuration order, that fails, with
\* 503 when the caller is new to that level and the level is full and 429
\* when the caller is known to it and has used up its calls; only an
\* admitted request goes on to the upstream call.
C10_FirstFailingLevel ==
    \A h \in Handlers :
        /\ Admitted(h) => \A l \in Levels : ~Fails(h, l)
        /\ Rejected(h) =>
              /\ Fails(h, level[h])
              /\ \A k \in Levels : k < level[h] => ~Fails(h, k)
              /\ Status(h) = IF OverCapacity(h, level[h])
                             THEN _CODE_503 ELSE _CODE_429
        /\ pc[h] = "upstream" =>
              /\ steps[h].locks = 1
              /\ steps[h].responses = 0

\* both levels fail, the first for capacity and the second for the calls
\* made: the call is answered 503 for the first
C10_Witness ==
    \E h \in Handlers :
        /\ Rejected(h)
        /\ level[h] = 1
        /\ Status(h) = _CODE_503
        /\ OverCapacity(h, 1)
        /\ RateExceeded(h, 2)

-----------------------------------------------------------------------------
(* C11 *)

AddressGiven(h) == environ[h].REMOTE_ADDR # ""
AgentAllowed(h) == StartsWith(environ[h].HTTP_USER_AGENT, _AWESOMETTS)
MethodIsGet(h) == environ[h].REQUEST_METHOD = "GET"
QueryPasses(h) == QueryAcceptable(environ[h].QUERY_STRING)

\* validation is over for the request of h
PastValidation(h) == pc[h] \notin {"idle", "validate"}

\* the request of h was answered by validation
Refused(h) == pc[h] = "done" /\ steps[h].locks = 0

\* C11: the validation checks are applied in the order caller address,
\* client header prefix, method, query string and the response is that of
\* the first failing check: a request with missing address or bad client
\* header is answered 403 whatever its method and query string, a request
\* other than GET with address and client header is answered 405 whatever
\* its query string, a GET with address and client header and a bad query
\* string is answered 400, and a request passing all four is not answered
\* by validation.
C11_FirstFailureWins ==
    \A h \in Handlers :
        PastValidation(h) =>
            /\ ~(AddressGiven(h) /\ AgentAllowed(h)) =>
                  /\ Refused(h)
                  /\ response[h] = [status |-> _CODE_403,
                                    ctype |-> _HEADERS_JSON,
                                    body |-> _MSG_DENIED]
            /\ AddressGiven(h) /\ AgentAllowed(h) /\ ~MethodIsGet(h) =>
                  /\ Refused(h)
                  /\ response[h] = [status |-> _CODE_405,
                                    ctype |-> _HEADERS_JSON,
                                    body |-> _MSG_UNACCEPTABLE]
            /\ AddressGiven(h) /\ AgentAllowed(h) /\ MethodIsGet(h)
                  /\ ~QueryPasses(h) =>
                  /\ Refused(h)
                  /\ response[h] = [status |-> _CODE_400,
                                    ctype |-> _HEADERS_JSON,
                                    body |-> _MSG_UNACCEPTABLE]
            /\ AddressGiven(h) /\ AgentAllowed(h) /\ MethodIsGet(h)
                  /\ QueryPasses(h) =>
                  ~Refused(h)

\* a POST without address, with a foreign user agent and a query string
\* asking for wav fails all four checks and is answered 403
C11_Witness ==
    \E h \in Handlers :
        /\ Refused(h)
        /\ ~AddressGiven(h)
        /\ ~AgentAllowed(h)
        /\ ~MethodIsGet(h)
        /\ ~QueryPasses(h)
        /\ Status(h) = _CODE_403

-----------------------------------------------------------------------------
(* C12 *)

\* the upstream call of h was made and answered
UpstreamAnswered(h) == pc[h] = "done" /\ steps[h].upstream = 1

\* the Content-Type header begins with audio/, on the sample headers
BeginsWithAudio(ctype) == ctype \in {"audio/wav", "audio/ogg; codecs=opus"}

\* C12: for an admitted request the response is determined by the upstream
\* outcome alone: 200 with exactly the upstream content type and the
\* unmodified body if and only if upstream answered status 200 with a
\* content type beginning with audio/, and 502 with the generic
\* upstream-unavailable message in every other case.
C12_UpstreamAlone ==
    \A h \in Handlers :
        UpstreamAnswered(h) =>
            response[h] =
                IF /\ ~fetched[h].raised
                   /\ fetched[h].code = 200
                   /\ BeginsWithAudio(fetched[h].ctype)
                   /\ fetched[h].readable
                THEN [status |-> _CODE_200, ctype |-> fetched[h].ctype,
                      body |-> fetched[h].body]
                ELSE [status |-> _CODE_502, ctype |-> _HEADERS_JSON,
                      body |-> _MSG_UPSTREAM]

-----------------------------------------------------------------------------
(* C13 *)

\* the request of h was answered with a failure
Failed(h) == Status(h) \notin {0, _CODE_200}

\* the fixed message of each failure status
GenericMessage(status) ==
    CASE status = _CODE_400 -> _MSG_UNACCEPTABLE
      [] status = _CODE_403 -> _MSG_DENIED
      [] status = _CODE_405 -> _MSG_UNACCEPTABLE
      [] status = _CODE_429 -> _MSG_TOO_MANY
      [] status = _CODE_502 -> _MSG_UPSTREAM
      [] status = _CODE_503 -> _MSG_CAPACITY

\* C13: every failure response is the fixed generic message of its error
\* kind, sent as JSON: whatever the query string, the caller, the records of
\* the lookups and the failed upstream reply, the failures of one kind have
\* the same status and the same body, and the body of a failed upstream
\* reply is not in the response.
C13_GenericFailures ==
    \A h \in Handlers :
        Failed(h) =>
            /\ Status(h) \in {_CODE_400, _CODE_403, _CODE_405, _CODE_429,
                               _CODE_502, _CODE_503}
            /\ response[h] = [status |-> Status(h), ctype |-> _HEADERS_JSON,
                              body |-> GenericMessage(Status(h))]

\* the upstream service answered 500 with an error text of its own, and the
\* caller got the generic message of 502
C13_Witness ==
    \E h \in Handlers :
        /\ UpstreamAnswered(h)
        /\ fetched[h].raised
        /\ fetched[h].body = "{error}"
        /\ Status(h) = _CODE_502
        /\ response[h].body = _MSG_UPSTREAM

-----------------------------------------------------------------------------
(* C14 *)

\* C14: no handler holds the rate-limit lock while it performs the upstream
\* call: the lock is held only by a handler inside the admission section
\* and is released on every exit from it (admitted, 429 or 503) before the
\* upstream call is made, so a handler at its upstream call leaves the lock
\* to the other handlers.
C14_NoLockDuringUpstream ==
    /\ \A h \in Handlers :
          /\ _limit_lock = h => InBlock(h)
          /\ pc[h] = "upstream" => _limit_lock # h /\ steps[h].upstream = 0
          /\ steps[h].upstream > 0 => pc[h] = "done" /\ _limit_lock # h
    /\ (\A h \in Handlers : ~InBlock(h)) => LockFree

\* one handler is at its upstream call while another one, which took the
\* lock after it and found the record of the same caller, has its call
\* decided
C14_Witness ==
    \E h, g \in Handlers :
        /\ h # g
        /\ pc[h] = "upstream"
        /\ _limit_lock = g
        /\ Decided(g)
        /\ Caller(g) \in DOMAIN entered[g][1]
        /\ Caller(g) = Caller(h)

-----------------------------------------------------------------------------
(* C15 *)

\* how far the handler is in its pass over the request
Stage(p) ==
    CASE p = "idle" -> 0
      [] p = "validate" -> 1
      [] p = "lock" -> 2
      [] p = "expire" -> 3
      [] p = "check" -> 4
      [] p \in {"commit", "rejected"} -> 5
      [] p = "accepted" -> 6
      [] p = "upstream" -> 7
      [] p = "done" -> 8

\* the handler is given its next request
NextRequest(h) == pc[h] \in {"idle", "done"} /\ pc'[h] = "validate"

C15_State ==
    \A h \in Handlers :
        /\ steps[h].locks <= 1
        /\ steps[h].upstream <= 1
        /\ steps[h].responses =
              IF pc[h] \in {"rejected", "done"} THEN 1 ELSE 0
        /\ steps[h].upstream = 1 =>
              /\ pc[h] = "done"
              /\ AddressGiven(h) /\ AgentAllowed(h) /\ MethodIsGet(h)
                    /\ QueryPasses(h)
              /\ steps[h].locks = 1
              /\ \A l \in Levels : Caller(h) \in DOMAIN lookup[l]
              /\ Status(h) \in {_CODE_200, _CODE_502}
        /\ pc[h] = "upstream" =>
              /\ AddressGiven(h) /\ AgentAllowed(h) /\ MethodIsGet(h)
                    /\ QueryPasses(h)
              /\ \A l \in Levels : Caller(h) \in DOMAIN lookup[l]

C15_Step ==
    \A h \in Handlers :
        \/ NextRequest(h)
        \/ /\ Stage(pc'[h]) >= Stage(pc[h])
           /\ pc'[h] # pc[h] => Stage(pc'[h]) > Stage(pc[h])
           /\ environ'[h] = environ[h]
           /\ steps'[h].locks >= steps[h].locks
           /\ steps'[h].upstream >= steps[h].upstream
           /\ steps'[h].responses >= steps[h].responses
           /\ steps[h].responses = 1 => response'[h] = response[h]

\* C15: each request is a single pass validation, rate limiting, upstream
\* call, response with no step backward: it is answered exactly once and
\* the response once made is not changed, it takes the lock at most once and
\* makes at most one upstream call, and it makes that call only after all
\* four validation checks passed and every level admitted and counted it.
C15_LinearPass == []C15_State /\ [][C15_Step]_vars

\* a request that went through all the stages: validated, admitted under
\* the lock, relayed once and answered once
C15_Witness ==
    \E h \in Handlers :
        /\ pc[h] = "done"
        /\ steps[h] = [locks |-> 1, upstream |-> 1, responses |-> 1]
        /\ Status(h) = _CODE_502
        /\ fetched[h].code = 204

-----------------------------------------------------------------------------
(* C16 *)

\* C16: under fair scheduling and an upstream call that comes back, every
\* request is eventually answered and its handler is through with it; a
\* handler waiting for the rate-limit lock eventually gets it, and a handler
\* that has the lock eventually gives it back, on the admitted and on the
\* rejected path.
C16_EventuallyResponded ==
    \A h \in Handlers :
        /\ (pc[h] = "validate") ~> (pc[h] = "done" /\ steps[h].responses = 1)
        /\ (pc[h] = "lock") ~> (_limit_lock = h)
        /\ (_limit_lock = h) ~> (_limit_lock # h)

\* one handler waits for the lock while the other one holds it with its call
\* rejected for capacity
C16_Witness ==
    \E h, g \in Handlers :
        /\ g # h
        /\ pc[h] = "lock"
        /\ _limit_lock = g
        /\ Rejected(g)
        /\ Status(g) = _CODE_503

-----------------------------------------------------------------------------
(* C17 *)

\* handler h counts its call in the level it is at
CountsNow(h) ==
    /\ pc[h] = "commit"
    /\ << pc'[h], level'[h] >> # << pc[h], level[h] >>

C17_Step ==
    \A h \in Handlers :
        CountsNow(h) =>
            /\ \A l \in Levels \ {level[h]} : lookup'[l] = lookup[l]
            /\ DOMAIN lookup'[level[h]] =
                  DOMAIN lookup[level[h]] \cup {Caller(h)}
            /\ \A a \in DOMAIN lookup[level[h]] \ {Caller(h)} :
                  lookup'[level[h]][a] = lookup[level[h]][a]
            /\ lookup'[level[h]][Caller(h)] =
                  IF Caller(h) \in DOMAIN lookup[level[h]]
                  THEN [created |-> lookup[level[h]][Caller(h)].created,
                        calls |-> lookup[level[h]][Caller(h)].calls + 1]
                  ELSE [created |-> now[h], calls |-> 1]

\* C17: the commit of an admitted call changes, in every level, only the
\* record of the caller: an absent record is created with the time of the
\* call and one call, an existing record gets one call more and keeps its
\* time of creation, and the record of every other identity is left as it
\* is.
C17_OnlyOwnRecord == [][C17_Step]_vars

\* an admitted call that is counted in a new record of the first level and
\* in an older record of the second, next to the record of another identity
C17_Witness ==
    \E h \in Handlers :
        /\ pc[h] = "accepted"
        /\ lookup[1][Caller(h)] = [created |-> now[h], calls |-> 1]
        /\ lookup[2][Caller(h)].calls >= 2
        /\ lookup[2][Caller(h)].created < now[h]
        /\ DOMAIN lookup[2] # {Caller(h)}

-----------------------------------------------------------------------------
(* C18 *)

\* C18: in every reachable state, whatever the requests and their
\* interleaving, each level tracks at most max_total identities and every
\* record of it has at least one call and at most max_single calls.
C18_WithinCaps ==
    \A l \in Levels :
        /\ Cardinality(DOMAIN lookup[l]) <= _limit_levels[l].max_total
        /\ \A a \in DOMAIN lookup[l] :
              /\ lookup[l][a].calls >= 1
              /\ lookup[l][a].calls <= _limit_levels[l].max_single

\* both levels track as many identities as they may, and each has a record
\* with as many calls as it may have
C18_Witness ==
    \A l \in Levels :
        /\ Cardinality(DOMAIN lookup[l]) = _limit_levels[l].max_total
        /\ \E a \in DOMAIN lookup[l] :
              lookup[l][a].calls = _limit_levels[l].max_single

-----------------------------------------------------------------------------
(* C19 *)

\* the upstream call of h comes back
UpstreamReturns(h) == pc[h] = "upstream" /\ pc'[h] = "done"

C19_State ==
    \A h \in Handlers :
        (UpstreamAnswered(h) /\ Status(h) = _CODE_502) =>
            \A l \in Levels :
                /\ Caller(h) \in DOMAIN lookup[l]
                /\ lookup[l][Caller(h)].calls =
                      AcceptedSince(Caller(h), lookup[l][Caller(h)].created)

C19_Step ==
    \A h \in Handlers :
        UpstreamReturns(h) =>
            /\ lookup' = lookup
            /\ accepted_at' = accepted_at
            /\ \A l \in Levels : Caller(h) \in DOMAIN lookup[l]

\* C19: the admission is committed before the upstream call and is not
\* taken back: the upstream call leaves the lookups as they are whatever it
\* comes back with, and when an admitted request ends in 502 the caller has
\* its record in every level with all its accepted calls counted, the
\* failed one included.
C19_NoRollback == []C19_State /\ [][C19_Step]_vars

\* a request that ended in 502 after a failed upstream call holds the only
\* slot of the first level and has used up the caller's calls there
C19_Witness ==
    \E h \in Handlers :
        /\ UpstreamAnswered(h)
        /\ Status(h) = _CODE_502
        /\ fetched[h].raised
        /\ Cardinality(DOMAIN lookup[1]) = _limit_levels[1].max_total
        /\ lookup[1][Caller(h)].calls = _limit_levels[1].max_single
        /\ accepted_at[Caller(h)][Len(accepted_at[Caller(h)])] =
              lookup[1][Caller(h)].created

====
